---- MODULE Spec2Model ----
(***************************************************************************)
(* load_confounds: the strategy-driven confound loader (parser.py).        *)
(*                                                                         *)
(* A Confounds engine is constructed from a strategy and options, then     *)
(* load() is called on one image file or a list of them.  Each file is     *)
(* loaded by _load_single: the families of the strategy are dispatched in  *)
(* order by _load_confound, MissingConfound conditions are accumulated on  *)
(* the instance, _check_error is the gate, and the blocks are assembled.   *)
(*                                                                         *)
(* Conventions                                                             *)
(*  - a call returns Ret(v) or Exc(e): [ok, val, none, exc];               *)
(*  - a DataFrame is a sequence of columns [label, src, scan, vec]: a      *)
(*    column taken from the raw table is the reference (src "raw", the     *)
(*    scan's id, its name), a scrub regressor carries its 0/1 vector;      *)
(*  - timepoints are 0-based as in numpy; row t of a series s is s[t+1];   *)
(*  - fractions are in hundredths (n_motion 0.2 is 20), framewise          *)
(*    displacement is in tenths of a millimetre (fd_thresh 0.2 is 2);      *)
(*  - Python None is the string "None", booleans of the options are        *)
(*    "True" / "False", n_compcor is [auto, n].                            *)
(***************************************************************************)
EXTENDS Integers, Sequences, FiniteSets, TLC

VARIABLES
    args,               \* the arguments the engine is constructed with
    calls,              \* the load() calls the caller still makes, in order
    pc,                 \* "new", "invalid", "idle", "single", "confound", "gate", "finish"
    self,               \* the Confounds instance: options and attributes
    img_files,          \* load(): the sanitized list of files of the call
    flag_single,        \* load(): a single input was provided
    file,               \* load(): position of the loop over img_files
    confounds_raw,      \* _load_single: the table of the file being loaded
    step,               \* _load_single: position of the loop over the strategy
    confounds,          \* _load_single: the blocks concatenated so far
    loaded_confounds,   \* _load_confound: what the last dispatch produced
    confounds_out,      \* load(): the matrices of the files loaded so far
    columns_out,        \* load(): their labels
    outcome             \* what the last construction or load() call gave its caller

vars == <<args, calls, pc, self, img_files, flag_single, file, confounds_raw,
          step, confounds, loaded_confounds, confounds_out, columns_out, outcome>>

-----------------------------------------------------------------------------
(* Bounds of the model *)

\* longest strategy list an engine is constructed with
MaxStrategy == 2
\* most files in the list of one load() call
MaxFiles == 3
\* most load() calls made on one instance
MaxCalls == 2
\* timepoints of a scan of the scrubbing specification
NScans == 12
\* most timepoints of such a scan over a threshold
MaxOutliers == 2
\* most components the sidecar lists for one mask
MaxComp == 3

-----------------------------------------------------------------------------
(* Generic helpers *)

Range(s) == {s[k] : k \in 1..Len(s)}

Min(S) == CHOOSE m \in S : \A o \in S : m <= o

RECURSIVE Flatten(_)
Flatten(ss) == IF ss = <<>> THEN <<>> ELSE Head(ss) \o Flatten(Tail(ss))

RECURSIVE SeqsUpTo(_, _)
\* every sequence over S of length at most n
SeqsUpTo(S, n) ==
    IF n = 0 THEN {<<>>}
    ELSE LET shorter == SeqsUpTo(S, n - 1)
         IN  shorter \cup {Append(s, e) : s \in shorter, e \in S}

\* Python: key in col, for two strings
Contains(col, key) ==
    \E k \in 1..(Len(col) - Len(key) + 1) : SubSeq(col, k, k + Len(key) - 1) = key

NoExc == [type |-> "", origin |-> "", params |-> <<>>, keywords |-> <<>>]

Ret(v) == [ok |-> TRUE, val |-> v, none |-> FALSE, exc |-> NoExc]

\* a function that falls off its end returns None
RetNone == [ok |-> TRUE, val |-> <<>>, none |-> TRUE, exc |-> NoExc]

Exc(type, origin) ==
    [ok |-> FALSE, val |-> <<>>, none |-> FALSE,
     exc |-> [type |-> type, origin |-> origin, params |-> <<>>, keywords |-> <<>>]]

\* confounds.MissingConfound(params=..., keywords=...)
MissingConfound(params, keywords) ==
    [ok |-> FALSE, val |-> <<>>, none |-> FALSE,
     exc |-> [type |-> "MissingConfound", origin |-> "confounds",
              params |-> params, keywords |-> keywords]]

-----------------------------------------------------------------------------
(* parser.py: module level *)

all_confounds ==
    <<"motion", "high_pass", "wm_csf", "global", "compcor", "ica_aroma", "scrub">>

\* a sanitizer that looks at the first element only
SanitizeFirstOnly(strategy) ==
    IF strategy.islist
    THEN IF strategy.items # <<>> /\ strategy.items[1] \notin Range(all_confounds)
         THEN Exc("ValueError", "_sanitize_strategy")
         ELSE Ret(strategy.items)
    ELSE Exc("ValueError", "_sanitize_strategy")

\* strategy is [islist, items]: isinstance(strategy, list) and its elements
_sanitize_strategy(strategy) ==
    IF strategy.islist
    THEN IF \E k \in 1..Len(strategy.items) :
                strategy.items[k] \notin Range(all_confounds)
         THEN Exc("ValueError", "_sanitize_strategy")
         ELSE Ret(strategy.items)
    ELSE Exc("ValueError", "_sanitize_strategy")

\* raises when either list is non-empty; the message prints both lists in full
_check_error(missing_confounds, missing_keys) ==
    IF missing_confounds # <<>> \/ missing_keys # <<>>
    THEN [ok |-> FALSE, val |-> <<>>, none |-> FALSE,
          exc |-> [type |-> "ValueError", origin |-> "_check_error",
                   params |-> missing_confounds, keywords |-> missing_keys]]
    ELSE RetNone

-----------------------------------------------------------------------------
(* The raw table of a scan and its sidecar                                 *)

MotionBase == <<"trans_x", "trans_y", "trans_z", "rot_x", "rot_y", "rot_z">>

\* the column order of a confounds table: each signal with its expansions
TableVariants(name) ==
    <<name, name \o "_derivative1", name \o "_derivative1_power2", name \o "_power2">>

\* the sidecar of the catalogue's scans: the combined mask first, each mask
\* ranked by explained variance, cumvar the cumulative variance in hundredths
DefaultMeta ==
    << [name |-> "a_comp_cor_00", mask |-> "combined", cumvar |-> 30],
       [name |-> "a_comp_cor_01", mask |-> "combined", cumvar |-> 50],
       [name |-> "a_comp_cor_02", mask |-> "combined", cumvar |-> 60],
       [name |-> "a_comp_cor_03", mask |-> "CSF", cumvar |-> 55],
       [name |-> "a_comp_cor_04", mask |-> "WM", cumvar |-> 40],
       [name |-> "a_comp_cor_05", mask |-> "WM", cumvar |-> 70],
       [name |-> "t_comp_cor_00", mask |-> "temporal", cumvar |-> 45],
       [name |-> "t_comp_cor_01", mask |-> "temporal", cumvar |-> 80] >>

MetaNames(meta) == [k \in 1..Len(meta) |-> meta[k].name]

FixedColumns ==
    TableVariants("global_signal") \o TableVariants("csf")
        \o TableVariants("white_matter")
        \o <<"std_dvars", "framewise_displacement">>

TailColumns ==
    <<"cosine00", "cosine01">>
        \o Flatten([k \in 1..Len(MotionBase) |-> TableVariants(MotionBase[k])])
        \o <<"aroma_motion_01", "aroma_motion_02">>

InSeq(e, s) == \E k \in 1..Len(s) : s[k] = e

\* a scan: the table's columns (those of drop are absent), its rows, and
\* what the file discovery finds beside it
Scan(id, drop, fd, dvars, has_json, meta, aroma_file, pca_k) ==
    [id |-> id,
     columns |-> SelectSeq(FixedColumns \o MetaNames(meta) \o TailColumns,
                           LAMBDA c : c \notin drop),
     n_scans |-> Len(fd),
     framewise_displacement |-> fd,
     std_dvars |-> dvars,
     has_json |-> has_json,
     meta |-> meta,
     aroma_file |-> aroma_file,
     pca_k |-> pca_k]

\* confounds_raw[name]: one column of the table, by reference
RawCol(raw, name) == [label |-> name, src |-> "raw", scan |-> raw.id, vec |-> <<>>]

\* confounds_raw[params]: the columns named, in the order asked
Select(raw, params) == [k \in 1..Len(params) |-> RawCol(raw, params[k])]

Labels(df) == [k \in 1..Len(df) |-> df[k].label]

-----------------------------------------------------------------------------
(* confounds.py and compcor.py: the helpers parser.py calls *)

SuffixOf(model) ==
    CASE model = "basic" -> <<>>
      [] model = "derivatives" -> <<"derivative1">>
      [] model = "power2" -> <<"power2">>
      [] model = "full" -> <<"derivative1", "power2", "derivative1_power2">>

\* the names as given, then each name's suffixed variants
_add_suffix(params, model) ==
    params \o Flatten([k \in 1..Len(params) |->
                 [m \in 1..Len(SuffixOf(model)) |->
                     params[k] \o "_" \o SuffixOf(model)[m]]])

\* every name of params must be a column; the absent ones are signalled
_check_params(raw, params) ==
    LET not_found_params == SelectSeq(params, LAMBDA par : ~InSeq(par, raw.columns))
    IN  IF not_found_params # <<>>
        THEN MissingConfound(not_found_params, <<>>)
        ELSE RetNone

\* the columns whose name holds a keyword; a keyword no column holds is signalled
_find_confounds(raw, keywords) ==
    LET found(key) == SelectSeq(raw.columns, LAMBDA col : Contains(col, key))
        missing_keys == SelectSeq(keywords, LAMBDA key : found(key) = <<>>)
    IN  IF missing_keys # <<>>
        THEN MissingConfound(<<>>, missing_keys)
        ELSE Ret(Flatten([k \in 1..Len(keywords) |-> found(keywords[k])]))

\* "auto" keeps the components fMRIPrep needs for half of the variance
VarianceTarget == 50

GroupOf(meta, mask) == SelectSeq(meta, LAMBDA e : e.mask = mask)

\* how many leading components of a mask's ranked candidates are taken
TakeCount(group, n_compcor) ==
    IF n_compcor.auto
    THEN LET reach == {k \in 1..Len(group) : group[k].cumvar >= VarianceTarget}
         IN  IF reach = {} THEN Len(group) ELSE Min(reach)
    ELSE IF n_compcor.n < Len(group) THEN n_compcor.n ELSE Len(group)

_select_compcor(meta, mask, n_compcor) ==
    MetaNames(SubSeq(GroupOf(meta, mask), 1, TakeCount(GroupOf(meta, mask), n_compcor)))

\* the masks of the anatomical selection: combined, or each tissue apart
AnatMasks(acompcor_combined) ==
    IF acompcor_combined = "True" THEN <<"combined">> ELSE <<"CSF", "WM">>

\* the compcor columns of the mode, each mask ranked on its own
_find_compcor(json, compcor, n_compcor, acompcor_combined) ==
    LET masks == CASE compcor = "anat" -> AnatMasks(acompcor_combined)
                   [] compcor = "temp" -> <<"temporal">>
                   [] compcor = "full" -> AnatMasks(acompcor_combined) \o <<"temporal">>
                   [] OTHER -> <<>>
    IN  IF compcor \notin {"anat", "temp", "full"}
        THEN Exc("KeyError", "_find_compcor")
        ELSE IF compcor # "temp" /\ acompcor_combined \notin {"True", "False"}
        THEN Exc("ValueError", "_check_acompcor")
        ELSE IF ~json.present
        THEN Exc("ValueError", "_find_compcor")
        ELSE Ret(Flatten([k \in 1..Len(masks) |->
                             _select_compcor(json.meta, masks[k], n_compcor)]))

\* the leading principal components reaching the target; the scan's data
\* decide how many that is (pca_k), never more than there are columns
_pca_motion(raw, confounds_motion, n_components) ==
    LET k == IF raw.pca_k < Len(confounds_motion)
             THEN raw.pca_k ELSE Len(confounds_motion)
    IN  IF n_components > 100
        THEN Exc("ValueError", "_pca_motion")
        ELSE Ret([c \in 1..k |->
                    [label |-> "motion_pca_" \o ToString(c), src |-> "pca",
                     scan |-> raw.id, vec |-> <<>>]])

\* shortest segment of unflagged volumes that scrubbing leaves in place
MinRunLength == 5

RECURSIVE SortedSeq(_)
\* np.sort(np.unique(...)) of the indices in S
SortedSeq(S) ==
    IF S = {} THEN <<>> ELSE <<Min(S)>> \o SortedSeq(S \ {Min(S)})

\* the maximal run of unflagged timepoints around the unflagged timepoint t
RunOf(F, n_scans, t) ==
    {u \in 0..(n_scans - 1) :
        \A v \in 0..(n_scans - 1) :
            ((u <= v /\ v <= t) \/ (t <= v /\ v <= u)) => v \notin F}

\* one pass of the absorption rule
Absorb(F, n_scans) ==
    F \cup {t \in (0..(n_scans - 1)) \ F : Cardinality(RunOf(F, n_scans, t)) < MinRunLength}

RECURSIVE AbsorbAll(_, _)
AbsorbAll(F, n_scans) ==
    IF Absorb(F, n_scans) = F THEN F ELSE AbsorbAll(Absorb(F, n_scans), n_scans)

\* the outliers and every segment too short to be kept, ascending
_optimize_scrub(fd_outliers, n_scans) ==
    SortedSeq(AbsorbAll(Range(fd_outliers), n_scans))

\* a single input becomes a list of one; img is [islist, items]
_sanitize_confounds(img) ==
    [img_files |-> img.items, flag_single |-> ~img.islist]

\* the table and the sidecar of an image file.  The file must be of the
\* kind the strategy needs, and anatomical compcor needs the sidecar.
_confounds_to_df(scan, flag_acompcor, flag_full_aroma) ==
    IF flag_full_aroma # scan.aroma_file
    THEN Exc("ValueError", "_check_images")
    ELSE IF flag_acompcor /\ ~scan.has_json
    THEN Exc("ValueError", "_get_json")
    ELSE Ret([raw |-> scan,
              json |-> [present |-> scan.has_json,
                        meta |-> IF scan.has_json THEN scan.meta ELSE <<>>]])

\* the matrix (each column optionally demeaned) and the labels
_confounds_to_ndarray(df, demean) ==
    [confounds |-> [k \in 1..Len(df) |->
                      [name |-> df[k].label, src |-> df[k].src, scan |-> df[k].scan,
                       vec |-> df[k].vec, demean |-> demean]],
     labels |-> Labels(df)]

-----------------------------------------------------------------------------
(* parser.py: the family loaders of class Confounds *)

\* a loader that reduces the block whatever the target
LoadMotionAlwaysReduce(slf, raw) ==
    LET motion_params == _add_suffix(MotionBase, slf.motion)
        chk == _check_params(raw, motion_params)
    IN  IF ~chk.ok THEN chk
        ELSE _pca_motion(raw, Select(raw, motion_params), slf.n_motion)

\* a motion loader that reduces whenever n_motion is not negative
LoadMotionReduceAtZero(slf, raw) ==
    LET motion_params == _add_suffix(MotionBase, slf.motion)
        chk == _check_params(raw, motion_params)
    IN  IF ~chk.ok THEN chk
        ELSE IF slf.n_motion >= 0
        THEN _pca_motion(raw, Select(raw, motion_params), slf.n_motion)
        ELSE Ret(Select(raw, motion_params))

_load_motion(slf, raw) ==
    LET motion_params == _add_suffix(MotionBase, slf.motion)
        chk == _check_params(raw, motion_params)
    IN  IF ~chk.ok THEN chk
        ELSE IF slf.n_motion > 0
        THEN _pca_motion(raw, Select(raw, motion_params), slf.n_motion)
        ELSE Ret(Select(raw, motion_params))

_load_high_pass(slf, raw) ==
    LET high_pass_params == _find_confounds(raw, <<"cosine">>)
    IN  IF ~high_pass_params.ok THEN high_pass_params
        ELSE Ret(Select(raw, high_pass_params.val))

_load_wm_csf(slf, raw) ==
    LET wm_csf_params == _add_suffix(<<"csf", "white_matter">>, slf.wm_csf)
        chk == _check_params(raw, wm_csf_params)
    IN  IF ~chk.ok THEN chk ELSE Ret(Select(raw, wm_csf_params))

_load_global(slf, raw) ==
    LET global_params == _add_suffix(<<"global_signal">>, slf.global_signal)
        chk == _check_params(raw, global_params)
    IN  IF ~chk.ok THEN chk ELSE Ret(Select(raw, global_params))

\* a loader that reports every failure of the selection as missing confounds
LoadCompcorReportsMissing(slf, raw) ==
    LET compcor_cols == _find_compcor(slf.json_, slf.compcor, slf.n_compcor,
                                      slf.acompcor_combined)
    IN  IF ~compcor_cols.ok THEN MissingConfound(<<>>, <<"compcor">>)
        ELSE LET chk == _check_params(raw, compcor_cols.val)
             IN  IF ~chk.ok THEN chk ELSE Ret(Select(raw, compcor_cols.val))

\* a loader that passes the default count whatever was requested
LoadCompcorAlwaysAuto(slf, raw) ==
    LET compcor_cols == _find_compcor(slf.json_, slf.compcor, [auto |-> TRUE, n |-> 0],
                                      slf.acompcor_combined)
    IN  IF ~compcor_cols.ok THEN compcor_cols
        ELSE LET chk == _check_params(raw, compcor_cols.val)
             IN  IF ~chk.ok THEN chk ELSE Ret(Select(raw, compcor_cols.val))

\* a loader that takes both selections whatever the mode
LoadCompcorAnyMode(slf, raw) ==
    LET compcor_cols == _find_compcor(slf.json_, "full", slf.n_compcor,
                                      slf.acompcor_combined)
    IN  IF ~compcor_cols.ok THEN compcor_cols
        ELSE LET chk == _check_params(raw, compcor_cols.val)
             IN  IF ~chk.ok THEN chk ELSE Ret(Select(raw, compcor_cols.val))

_load_compcor(slf, raw) ==
    LET compcor_cols == _find_compcor(slf.json_, slf.compcor, slf.n_compcor,
                                      slf.acompcor_combined)
    IN  IF ~compcor_cols.ok THEN compcor_cols
        ELSE LET chk == _check_params(raw, compcor_cols.val)
             IN  IF ~chk.ok THEN chk ELSE Ret(Select(raw, compcor_cols.val))

_load_ica_aroma(slf, raw) ==
    IF slf.ica_aroma = "None"
    THEN Exc("ValueError", "_load_ica_aroma")
    ELSE IF slf.ica_aroma = "full"
    THEN Ret(<<>>)
    ELSE IF slf.ica_aroma = "basic"
    THEN LET ica_aroma_params == _find_confounds(raw, <<"aroma">>)
         IN  IF ~ica_aroma_params.ok THEN ica_aroma_params
             ELSE Ret(Select(raw, ica_aroma_params.val))
    ELSE RetNone

\* a comparison that also flags a value at the threshold
OutliersAtThreshold(series, thresh) ==
    {t \in 0..(Len(series) - 1) : series[t + 1] >= thresh}

\* np.where(series > thresh)[0]
Outliers(series, thresh) == {t \in 0..(Len(series) - 1) : series[t + 1] > thresh}

\* flagged timepoints that are never extended
CombinedNeverOptimized(slf, raw) ==
    SortedSeq(Outliers(raw.framewise_displacement, slf.fd_thresh)
                \cup Outliers(raw.std_dvars, slf.std_dvars_thresh))

\* the flagged timepoints of _load_scrub, before they are rendered
combined_outliers(slf, raw) ==
    LET fd_outliers == Outliers(raw.framewise_displacement, slf.fd_thresh)
        dvars_outliers == Outliers(raw.std_dvars, slf.std_dvars_thresh)
        combined == SortedSeq(fd_outliers \cup dvars_outliers)
    IN  IF slf.scrub = "full" /\ Len(combined) > 0
        THEN _optimize_scrub(combined, raw.n_scans)
        ELSE combined

\* regressors named after the timepoint they flag
OneHotNamedByTimepoint(outliers, n_scans) ==
    [k \in 1..Len(outliers) |->
        [label |-> "motion_outlier_" \o ToString(outliers[k]), src |-> "scrub",
         scan |-> 0,
         vec |-> [r \in 1..n_scans |-> IF r - 1 = outliers[k] THEN 1 ELSE 0]]]

\* np.transpose(np.eye(n_scans)[outliers]): column k is 1 at row outliers[k]
OneHot(outliers, n_scans) ==
    [k \in 1..Len(outliers) |->
        [label |-> "motion_outlier_" \o ToString(k - 1), src |-> "scrub", scan |-> 0,
         vec |-> [r \in 1..n_scans |-> IF r - 1 = outliers[k] THEN 1 ELSE 0]]]

_load_scrub(slf, raw) ==
    IF ~InSeq("framewise_displacement", raw.columns)
    THEN Exc("KeyError", "framewise_displacement")
    ELSE IF ~InSeq("std_dvars", raw.columns)
    THEN Exc("KeyError", "std_dvars")
    ELSE Ret(OneHot(combined_outliers(slf, raw), raw.n_scans))

\* getattr(self, f"_load_{confound}")(confounds_raw)
Dispatch(slf, confound, raw) ==
    CASE confound = "motion" -> _load_motion(slf, raw)
      [] confound = "high_pass" -> _load_high_pass(slf, raw)
      [] confound = "wm_csf" -> _load_wm_csf(slf, raw)
      [] confound = "global" -> _load_global(slf, raw)
      [] confound = "compcor" -> _load_compcor(slf, raw)
      [] confound = "ica_aroma" -> _load_ica_aroma(slf, raw)
      [] confound = "scrub" -> _load_scrub(slf, raw)

-----------------------------------------------------------------------------
(* The caller's side: arguments, scans, results *)

\* Confounds.__init__'s defaults, the strategy as an argument [islist, items]
DefaultArgs ==
    [strategy |-> [islist |-> TRUE, items |-> <<"motion", "high_pass", "wm_csf">>],
     motion |-> "full", n_motion |-> 0, scrub |-> "full",
     fd_thresh |-> 2, std_dvars_thresh |-> 3,
     wm_csf |-> "basic", global_signal |-> "basic",
     compcor |-> "anat", acompcor_combined |-> "True",
     n_compcor |-> [auto |-> TRUE, n |-> 0],
     ica_aroma |-> "None", demean |-> TRUE]

NoSelf == [strategy |-> <<>>]

NoOutcome == [status |-> "none", value |-> <<>>, exc |-> NoExc]

Raised(exc) == [status |-> "raised", value |-> <<>>, exc |-> exc]

Returned(v) == [status |-> "returned", value |-> v, exc |-> NoExc]

-----------------------------------------------------------------------------
(* Actions *)

\* a concatenation that puts the new block first
ConcatPrepend(df, loaded) == loaded \o df

\* pd.concat([confounds, loaded_confounds], axis=1)
Concat(df, loaded) == df \o loaded

\* an append that puts the newest result first
AppendOutFirst(out, conf) == <<conf>> \o out

\* confounds_out.append(conf), columns_out.append(col)
AppendOut(out, conf) == Append(out, conf)

\* an except clause that handles every condition
CaughtAny(exc) == TRUE

\* except cf.MissingConfound: the one condition _load_confound handles
Caught(exc) == exc.type = "MissingConfound"

\* Confounds(strategy, ...): the strategy is sanitized, the options are kept
Construct ==
    /\ pc = "new"
    /\ LET strategy == _sanitize_strategy(args.strategy)
       IN  IF strategy.ok
           THEN /\ self' = [strategy |-> strategy.val,
                            motion |-> args.motion, n_motion |-> args.n_motion,
                            scrub |-> args.scrub, fd_thresh |-> args.fd_thresh,
                            std_dvars_thresh |-> args.std_dvars_thresh,
                            wm_csf |-> args.wm_csf,
                            global_signal |-> args.global_signal,
                            compcor |-> args.compcor,
                            acompcor_combined |-> args.acompcor_combined,
                            n_compcor |-> args.n_compcor,
                            ica_aroma |-> args.ica_aroma, demean |-> args.demean,
                            missing_confounds_ |-> <<>>, missing_keys_ |-> <<>>,
                            json_ |-> [present |-> FALSE, meta |-> <<>>],
                            loaded |-> FALSE, confounds_ |-> <<>>, columns_ |-> <<>>]
                /\ pc' = "idle"
                /\ outcome' = [status |-> "constructed", value |-> <<>>, exc |-> NoExc]
           ELSE /\ pc' = "invalid"
                /\ outcome' = Raised(strategy.exc)
                /\ UNCHANGED self
    /\ UNCHANGED <<args, calls, img_files, flag_single, file, confounds_raw, step,
                   confounds, loaded_confounds, confounds_out, columns_out>>

\* a load() that leaves the two missing lists as the last call left them
LoadBeginKeepsMissing ==
    /\ pc = "idle"
    /\ calls # <<>>
    /\ LET sanitized == _sanitize_confounds(Head(calls))
       IN  /\ img_files' = sanitized.img_files
           /\ flag_single' = sanitized.flag_single
           /\ pc' = IF sanitized.img_files = <<>> THEN "finish" ELSE "single"
    /\ calls' = Tail(calls)
    /\ confounds_out' = <<>>
    /\ columns_out' = <<>>
    /\ file' = 1
    /\ outcome' = NoOutcome
    /\ UNCHANGED <<args, self, confounds_raw, step, confounds, loaded_confounds>>

\* load(img_files), to the head of its loop: the input is sanitized, the
\* outputs and the two missing lists are reset
LoadBegin ==
    /\ pc = "idle"
    /\ calls # <<>>
    /\ LET sanitized == _sanitize_confounds(Head(calls))
       IN  /\ img_files' = sanitized.img_files
           /\ flag_single' = sanitized.flag_single
           /\ pc' = IF sanitized.img_files = <<>> THEN "finish" ELSE "single"
    /\ calls' = Tail(calls)
    /\ confounds_out' = <<>>
    /\ columns_out' = <<>>
    /\ self' = [self EXCEPT !.missing_confounds_ = <<>>, !.missing_keys_ = <<>>]
    /\ file' = 1
    /\ outcome' = NoOutcome
    /\ UNCHANGED <<args, confounds_raw, step, confounds, loaded_confounds>>

\* _load_single(file), to the head of its loop: the table and the sidecar
LoadSingleBegin ==
    /\ pc = "single"
    /\ LET flag_acompcor == InSeq("compcor", self.strategy) /\ self.compcor = "anat"
           flag_full_aroma == InSeq("ica_aroma", self.strategy) /\ self.ica_aroma = "full"
           df == _confounds_to_df(img_files[file], flag_acompcor, flag_full_aroma)
       IN  IF df.ok
           THEN /\ confounds_raw' = df.val.raw
                /\ self' = [self EXCEPT !.json_ = df.val.json]
                /\ confounds' = <<>>
                /\ step' = 1
                /\ pc' = IF self.strategy = <<>> THEN "gate" ELSE "confound"
                /\ UNCHANGED outcome
           ELSE /\ pc' = "idle"
                /\ outcome' = Raised(df.exc)
                /\ UNCHANGED <<confounds_raw, self, confounds, step>>
    /\ UNCHANGED <<args, calls, img_files, flag_single, file, loaded_confounds,
                   confounds_out, columns_out>>

\* one turn of _load_single's loop: _load_confound(confounds_raw, confound),
\* then pd.concat([confounds, loaded_confounds], axis=1)
LoadConfound ==
    /\ pc = "confound"
    /\ LET r == Dispatch(self, self.strategy[step], confounds_raw)
       IN  IF r.ok
           THEN /\ loaded_confounds' = r.val
                /\ confounds' = Concat(confounds, r.val)
                /\ step' = step + 1
                /\ pc' = IF step = Len(self.strategy) THEN "gate" ELSE "confound"
                /\ UNCHANGED <<self, outcome>>
           ELSE IF Caught(r.exc)
           THEN /\ self' = [self EXCEPT
                              !.missing_confounds_ = @ \o r.exc.params,
                              !.missing_keys_ = @ \o r.exc.keywords]
                /\ loaded_confounds' = <<>>
                /\ confounds' = Concat(confounds, <<>>)
                /\ step' = step + 1
                /\ pc' = IF step = Len(self.strategy) THEN "gate" ELSE "confound"
                /\ UNCHANGED outcome
           ELSE /\ pc' = "idle"
                /\ outcome' = Raised(r.exc)
                /\ UNCHANGED <<self, loaded_confounds, confounds, step>>
    /\ UNCHANGED <<args, calls, img_files, flag_single, file, confounds_raw,
                   confounds_out, columns_out>>

\* the end of _load_single and of one turn of load's loop: _check_error,
\* _confounds_to_ndarray, and the two appends
LoadSingleEnd ==
    /\ pc = "gate"
    /\ LET chk == _check_error(self.missing_confounds_, self.missing_keys_)
           nd == _confounds_to_ndarray(confounds, self.demean)
       IN  IF chk.ok
           THEN /\ confounds_out' = AppendOut(confounds_out, nd.confounds)
                /\ columns_out' = AppendOut(columns_out, nd.labels)
                /\ file' = file + 1
                /\ pc' = IF file = Len(img_files) THEN "finish" ELSE "single"
                /\ UNCHANGED outcome
           ELSE /\ pc' = "idle"
                /\ outcome' = Raised(chk.exc)
                /\ UNCHANGED <<confounds_out, columns_out, file>>
    /\ UNCHANGED <<args, calls, self, img_files, flag_single, confounds_raw, step,
                   confounds, loaded_confounds>>

\* the end of load: a single input gets a single output; the result is kept
LoadEnd ==
    /\ pc = "finish"
    /\ LET conf == IF flag_single THEN confounds_out[1] ELSE confounds_out
           cols == IF flag_single THEN columns_out[1] ELSE columns_out
       IN  /\ self' = [self EXCEPT !.loaded = TRUE, !.confounds_ = conf,
                                   !.columns_ = cols]
           /\ outcome' = Returned(conf)
    /\ pc' = "idle"
    /\ UNCHANGED <<args, calls, img_files, flag_single, file, confounds_raw, step,
                   confounds, loaded_confounds, confounds_out, columns_out>>

Next ==
    \/ Construct
    \/ LoadBegin
    \/ LoadSingleBegin
    \/ LoadConfound
    \/ LoadSingleEnd
    \/ LoadEnd

-----------------------------------------------------------------------------
(* The general specification: every strategy up to MaxStrategy tags, one   *)
(* load() call on a scan of the catalogue, alone or as a list of one       *)

\* the tags arguments are drawn from: the vocabulary and one stranger
Tags == Range(all_confounds) \cup {"error"}

StrategyArgs ==
    {[islist |-> TRUE, items |-> s] : s \in SeqsUpTo(Tags, MaxStrategy)}
        \cup {[islist |-> FALSE, items |-> <<>>]}

\* options are drawn for the families of the strategy; the others are left
\* at their defaults (no loader reads them)
OptionsOf(tag, values, default, strategy) ==
    IF InSeq(tag, strategy.items) THEN values ELSE {default}

MainArgs ==
    {[DefaultArgs EXCEPT !.strategy = st, !.motion = m, !.n_motion = nm,
                         !.compcor = cc, !.ica_aroma = ia] :
        st \in StrategyArgs,
        m \in {"basic", "full"}, nm \in {0, 5000},
        cc \in {"anat", "blah"}, ia \in {"None", "basic", "full"}}

Canonical(a) ==
    /\ a.motion \in OptionsOf("motion", {"basic", "full"}, "full", a.strategy)
    /\ a.n_motion \in OptionsOf("motion", {0, 5000}, 0, a.strategy)
    /\ a.compcor \in OptionsOf("compcor", {"anat", "blah"}, "anat", a.strategy)
    /\ a.ica_aroma \in OptionsOf("ica_aroma", {"None", "basic", "full"}, "None", a.strategy)

\* the scans of the general specification: a complete one, the test data's
\* incomplete one (no sidecar), one without the scrubbing statistics, and a
\* complete one whose image is the ICA-AROMA denoised file
Catalogue ==
    { Scan(1, {}, <<1, 3, 1, 1, 1, 1, 1, 2>>, <<2, 2, 2, 2, 2, 2, 4, 3>>,
           TRUE, DefaultMeta, FALSE, 2),
      Scan(2, {"trans_y", "trans_x_derivative1", "rot_z_power2", "cosine00",
               "cosine01", "aroma_motion_01", "aroma_motion_02"},
           <<1, 1, 1, 1, 1, 1, 1, 1>>, <<2, 2, 2, 2, 2, 2, 2, 2>>,
           FALSE, DefaultMeta, FALSE, 2),
      Scan(3, {"framewise_displacement", "global_signal", "csf"},
           <<1, 1, 1, 1, 1, 1, 1, 1>>, <<2, 2, 2, 2, 2, 2, 2, 2>>,
           TRUE, DefaultMeta, FALSE, 2),
      Scan(4, {}, <<1, 1, 1, 1, 1, 1, 1, 1>>, <<2, 2, 2, 2, 2, 5, 2, 2>>,
           TRUE, DefaultMeta, TRUE, 2) }

\* a load() input: one file, or a list of files
Single(scan) == [islist |-> FALSE, items |-> <<scan>>]

List(scans) == [islist |-> TRUE, items |-> scans]

InitWith(argset, callset) ==
    /\ args \in argset
    /\ calls \in callset
    /\ pc = "new"
    /\ self = NoSelf
    /\ img_files = <<>>
    /\ flag_single = FALSE
    /\ file = 1
    /\ confounds_raw = [id |-> 0]
    /\ step = 1
    /\ confounds = <<>>
    /\ loaded_confounds = <<>>
    /\ confounds_out = <<>>
    /\ columns_out = <<>>
    /\ outcome = NoOutcome

Init ==
    InitWith({a \in MainArgs : Canonical(a)},
             {<<Single(s)>> : s \in Catalogue} \cup {<<List(<<s>>)>> : s \in Catalogue})

Spec == Init /\ [][Next]_vars

-----------------------------------------------------------------------------
(* Vocabulary of the properties *)

\* a load() call has ended: it returned or it raised
Finished == pc = "idle" /\ outcome.status \in {"returned", "raised"}

\* the sidecar _load_single keeps on the instance for a scan
JsonOf(scan) ==
    [present |-> scan.has_json, meta |-> IF scan.has_json THEN scan.meta ELSE <<>>]

ForScan(slf, scan) == [slf EXCEPT !.json_ = JsonOf(scan)]

\* the scan's table with every column a family may read
Complete(scan) ==
    [scan EXCEPT !.columns = FixedColumns \o MetaNames(scan.meta) \o TailColumns]

\* the columns and keywords family tag needs of the table and the table lacks
Absent(slf, tag, scan) ==
    IF tag = "scrub"
    THEN SelectSeq(<<"framewise_displacement", "std_dvars">>,
                   LAMBDA c : ~InSeq(c, scan.columns))
    ELSE LET r == Dispatch(ForScan(slf, scan), tag, scan)
         IN  IF ~r.ok /\ r.exc.type = "MissingConfound"
             THEN r.exc.params \o r.exc.keywords
             ELSE <<>>

\* absent columns are all that stands in the way of loading the scan: with
\* the table completed, the file is accepted and every family loads
OnlyColumnsAbsent(slf, scan) ==
    /\ _confounds_to_df(scan,
            InSeq("compcor", slf.strategy) /\ slf.compcor = "anat",
            InSeq("ica_aroma", slf.strategy) /\ slf.ica_aroma = "full").ok
    /\ \A k \in 1..Len(slf.strategy) :
            Dispatch(ForScan(slf, scan), slf.strategy[k], Complete(scan)).ok
    /\ \E k \in 1..Len(slf.strategy) : Absent(slf, slf.strategy[k], scan) # <<>>

\* the error is the gate's, raised after the whole strategy was attempted,
\* and its message names everything the families lack
Consolidated(slf, scan) ==
    /\ outcome.status = "raised"
    /\ outcome.exc.origin = "_check_error"
    /\ step = Len(slf.strategy) + 1
    /\ \A k \in 1..Len(slf.strategy) :
         \A name \in Range(Absent(slf, slf.strategy[k], scan)) :
            name \in Range(outcome.exc.params) \cup Range(outcome.exc.keywords)

-----------------------------------------------------------------------------
(* Properties of the general specification *)

\* C1: when families of the strategy lack columns of the scan's table (and
\* nothing else is wrong with the call), load fails with the one consolidated
\* error, raised after every family was attempted, whose message holds every
\* missing keyword and every missing column of all the failing families.
C1_ConsolidatedError ==
    (Finished /\ Len(img_files) = 1 /\ OnlyColumnsAbsent(self, img_files[1]))
        => Consolidated(self, img_files[1])

\* The same, for the strategies without the scrub family.
ConsolidatedWithoutScrub ==
    (Finished /\ Len(img_files) = 1 /\ ~InSeq("scrub", self.strategy)
        /\ OnlyColumnsAbsent(self, img_files[1]))
        => Consolidated(self, img_files[1])

\* C2: when the loader of a family raises a condition that is not the
\* missing-column one, the call ends there: that very error is what the
\* caller gets, the two missing lists are as they were, no result is kept or
\* returned, and the loop over the strategy goes no further.
C2_FatalAborts ==
    [][(/\ pc = "confound"
        /\ ~Dispatch(self, self.strategy[step], confounds_raw).ok
        /\ Dispatch(self, self.strategy[step], confounds_raw).exc.type
                # "MissingConfound")
       => (/\ pc' = "idle"
           /\ outcome' = Raised(Dispatch(self, self.strategy[step], confounds_raw).exc)
           /\ self' = self
           /\ step' = step
           /\ confounds' = confounds
           /\ confounds_out' = confounds_out
           /\ columns_out' = columns_out)]_vars

\* ICA-AROMA without a mode aborts a call whose earlier family had already
\* accumulated missing columns
C2_Witness ==
    /\ Finished
    /\ outcome.status = "raised"
    /\ outcome.exc.origin = "_load_ica_aroma"
    /\ self.strategy = <<"motion", "ica_aroma">>
    /\ self.missing_confounds_ # <<>>

\* C3: construction fails (ValueError of _sanitize_strategy) exactly when the
\* strategy is not a list or holds an element outside the seven tags;
\* otherwise it succeeds and the strategy kept is the list given, in order.
C3_StrategyValidated ==
    pc # "new" =>
        IF /\ args.strategy.islist
           /\ \A k \in 1..Len(args.strategy.items) :
                args.strategy.items[k] \in
                    {"motion", "high_pass", "wm_csf", "global", "compcor",
                     "ica_aroma", "scrub"}
        THEN pc # "invalid" /\ self.strategy = args.strategy.items
        ELSE /\ pc = "invalid"
             /\ outcome.status = "raised"
             /\ outcome.exc = Exc("ValueError", "_sanitize_strategy").exc

\* a list is rejected for its second element
C3_Witness ==
    /\ pc = "invalid"
    /\ args.strategy.islist
    /\ args.strategy.items = <<"scrub", "error">>

\* the labels of the blocks the families give for a scan, in strategy order
ExpectedLabels(slf, scan) ==
    Flatten([k \in 1..Len(slf.strategy) |->
                Labels(Dispatch(ForScan(slf, scan), slf.strategy[k], scan).val)])

\* C4: the labels of every loaded scan are the labels of the families'
\* blocks, one block after the other in the order of the strategy, each
\* block in the family's own order; the matrix has the same columns.
C4_BlocksInStrategyOrder ==
    /\ \A i \in 1..Len(columns_out) :
          /\ columns_out[i] = ExpectedLabels(self, img_files[i])
          /\ Len(confounds_out[i]) = Len(columns_out[i])
          /\ \A k \in 1..Len(columns_out[i]) :
                confounds_out[i][k].name = columns_out[i][k]
    /\ (Finished /\ outcome.status = "returned" /\ flag_single)
          => self.columns_ = ExpectedLabels(self, img_files[1])

\* the cosines come before the motion parameters when high_pass comes first
C4_Witness ==
    /\ Finished
    /\ outcome.status = "returned"
    /\ flag_single
    /\ self.strategy = <<"high_pass", "motion">>
    /\ self.columns_[1] = "cosine00"
    /\ self.columns_[3] = "trans_x"
    /\ Len(self.columns_) > 3

-----------------------------------------------------------------------------
(* Batches: a few engines, one load() call on a list of up to MaxFiles     *)
(* scans or on a single scan                                               *)

\* a second complete scan, with other rows than scan 1
OtherScan ==
    Scan(5, {}, <<1, 1, 1, 1, 1, 1, 3, 1>>, <<2, 2, 2, 2, 2, 2, 2, 2>>,
         TRUE, DefaultMeta, FALSE, 3)

BatchScans == {s \in Catalogue : s.id \in {1, 2}} \cup {OtherScan}

BatchArgs ==
    {[DefaultArgs EXCEPT !.strategy = [islist |-> TRUE, items |-> st],
                         !.compcor = "temp", !.scrub = sc] :
        st \in {<<"motion", "high_pass", "wm_csf">>, <<"scrub", "global">>,
                <<"compcor">>},
        sc \in {"basic", "full"}}

InitBatch ==
    InitWith({a \in BatchArgs : a.scrub \in OptionsOf("scrub", {"basic", "full"},
                                                     "full", a.strategy)},
             {<<Single(s)>> : s \in BatchScans}
                \cup {<<List(l)>> : l \in SeqsUpTo(BatchScans, MaxFiles)})

SpecBatch == InitBatch /\ [][Next]_vars

RECURSIVE RunFamilies(_, _, _, _)
\* the families from position k on, over what the earlier ones left in acc
RunFamilies(slf, raw, k, acc) ==
    IF k > Len(slf.strategy) THEN [ok |-> TRUE, acc |-> acc, exc |-> NoExc]
    ELSE LET r == Dispatch(slf, slf.strategy[k], raw)
         IN  IF r.ok
             THEN RunFamilies(slf, raw, k + 1, [acc EXCEPT !.df = @ \o r.val])
             ELSE IF r.exc.type = "MissingConfound"
             THEN RunFamilies(slf, raw, k + 1,
                      [acc EXCEPT !.params = @ \o r.exc.params,
                                  !.keywords = @ \o r.exc.keywords])
             ELSE [ok |-> FALSE, acc |-> acc, exc |-> r.exc]

\* what loading the scan alone gives, on an engine with these options
LoadAlone(slf, scan) ==
    LET df == _confounds_to_df(scan,
                  InSeq("compcor", slf.strategy) /\ slf.compcor = "anat",
                  InSeq("ica_aroma", slf.strategy) /\ slf.ica_aroma = "full")
        run == RunFamilies(ForScan(slf, scan), scan, 1,
                           [df |-> <<>>, params |-> <<>>, keywords |-> <<>>])
    IN  IF ~df.ok THEN Raised(df.exc)
        ELSE IF ~run.ok THEN Raised(run.exc)
        ELSE IF run.acc.params # <<>> \/ run.acc.keywords # <<>>
        THEN Raised([type |-> "ValueError", origin |-> "_check_error",
                     params |-> run.acc.params, keywords |-> run.acc.keywords])
        ELSE Returned([k \in 1..Len(run.acc.df) |->
                         [name |-> run.acc.df[k].label, src |-> run.acc.df[k].src,
                          scan |-> run.acc.df[k].scan, vec |-> run.acc.df[k].vec,
                          demean |-> slf.demean]])

\* C5: a call on a list of n scans that all load returns a list of n
\* results, the i-th being what loading scan i alone gives; a call on a
\* single scan returns that scan's result itself, not a list.
C5_BatchInOrder ==
    (Finished /\ outcome.status = "returned") =>
        IF flag_single
        THEN /\ Len(img_files) = 1
             /\ outcome.value = LoadAlone(self, img_files[1]).value
             /\ LoadAlone(self, img_files[1]).status = "returned"
        ELSE /\ Len(outcome.value) = Len(img_files)
             /\ \A i \in 1..Len(img_files) :
                    /\ LoadAlone(self, img_files[i]).status = "returned"
                    /\ outcome.value[i] = LoadAlone(self, img_files[i]).value

\* a list of two different scans came back as two different results
C5_Witness ==
    /\ Finished
    /\ outcome.status = "returned"
    /\ ~flag_single
    /\ Len(img_files) = 2
    /\ img_files[1].id = 5
    /\ img_files[2].id = 1
    /\ self.strategy = <<"scrub", "global">>
    /\ outcome.value[1] # outcome.value[2]

-----------------------------------------------------------------------------
(* Motion: the strategy is motion alone, every model and several variance  *)
(* targets, one load() call on a scan of the catalogue                     *)

MotionArgs ==
    {[DefaultArgs EXCEPT !.strategy = [islist |-> TRUE, items |-> <<"motion">>],
                         !.motion = m, !.n_motion = nm] :
        m \in {"basic", "derivatives", "power2", "full"},
        nm \in {-50, 0, 20, 95, 5000}}

InitMotion ==
    InitWith(MotionArgs,
             {<<Single(s)>> : s \in Catalogue} \cup {<<List(<<s>>)>> : s \in Catalogue})

SpecMotion == InitMotion /\ [][Next]_vars

\* the suffix rule: what each model adds to a name ("quadratic" is the
\* model the code calls power2)
RuleSuffixes(model) ==
    CASE model = "basic" -> {""}
      [] model = "derivatives" -> {"", "_derivative1"}
      [] model = "power2" -> {"", "_power2"}
      [] model = "full" -> {"", "_derivative1", "_power2", "_derivative1_power2"}

SixNames == <<"trans_x", "trans_y", "trans_z", "rot_x", "rot_y", "rot_z">>

RuleExpansion(model) ==
    {SixNames[b] \o suffix : b \in 1..6, suffix \in RuleSuffixes(model)}

\* the base name a motion column is a variant of
BaseOf(label) ==
    CHOOSE b \in 1..6 :
        /\ Len(label) >= Len(SixNames[b])
        /\ SubSeq(label, 1, Len(SixNames[b])) = SixNames[b]

\* the variants of one base name are next to each other
GroupedByBase(cols) ==
    \A p, q, r \in 1..Len(cols) :
        (p < q /\ q < r /\ BaseOf(cols[p]) = BaseOf(cols[r]))
            => BaseOf(cols[q]) = BaseOf(cols[p])

\* a motion-only load, without reduction, has returned
MotionLoaded ==
    /\ Finished
    /\ outcome.status = "returned"
    /\ flag_single
    /\ self.strategy = <<"motion">>
    /\ self.n_motion = 0

\* the columns are the suffix expansion, each variant once and nothing else
ExactExpansion(cols, model) ==
    /\ Range(cols) = RuleExpansion(model)
    /\ Len(cols) = Cardinality(RuleExpansion(model))

MessageOfIncompleteScan ==
    (/\ Finished
     /\ self.strategy = <<"high_pass", "motion">>
     /\ self.motion = "full"
     /\ self.n_motion = 0
     /\ img_files[1].id = 2)
        => /\ outcome.status = "raised"
           /\ outcome.exc.params = <<"trans_y", "trans_x_derivative1", "rot_z_power2">>
           /\ outcome.exc.keywords = <<"cosine">>

-----------------------------------------------------------------------------
(* Scrubbing: the strategy is scrub alone, in both modes, one load() call  *)
(* on a scan of NScans timepoints of which at most MaxOutliers exceed the  *)
(* displacement threshold, the DVARS threshold or both                     *)

RECURSIVE SubsetsUpTo(_, _)
SubsetsUpTo(S, k) ==
    IF k = 0 THEN {{}}
    ELSE LET smaller == SubsetsUpTo(S, k - 1)
         IN  smaller \cup {T \cup {e} : T \in smaller, e \in S}

\* the other timepoints sit at the threshold or below it
ScrubScan(F, D) ==
    Scan(1, {},
         [r \in 1..NScans |-> IF r - 1 \in F THEN 3 ELSE IF r % 2 = 0 THEN 2 ELSE 1],
         [r \in 1..NScans |-> IF r - 1 \in D THEN 4 ELSE IF r % 3 = 0 THEN 3 ELSE 2],
         TRUE, DefaultMeta, FALSE, 2)

ScrubScans ==
    {ScrubScan(F, D) : <<F, D>> \in
        UNION {{<<F, D>> : F \in SUBSET O, D \in SUBSET O} :
                    O \in SubsetsUpTo(0..(NScans - 1), MaxOutliers)}}

ScrubArgs ==
    {[DefaultArgs EXCEPT !.strategy = [islist |-> TRUE, items |-> <<"scrub">>],
                         !.scrub = sc] : sc \in {"basic", "full"}}

InitScrub == InitWith(ScrubArgs, {<<Single(s)>> : s \in ScrubScans})

SpecScrub == InitScrub /\ [][Next]_vars

\* a scrub-only load has returned
ScrubLoaded ==
    /\ Finished
    /\ outcome.status = "returned"
    /\ flag_single
    /\ self.strategy = <<"scrub">>

\* the rows at which a regressor is 1
RowsOf(vec) == {t \in 0..(Len(vec) - 1) : vec[t + 1] = 1}

\* the timepoints the regressors of a block flag
FlaggedBy(block) == UNION {RowsOf(block[k].vec) : k \in 1..Len(block)}

\* the timepoints over a threshold, as the rule states them
OverThreshold(slf, scan) ==
    {t \in 0..(scan.n_scans - 1) :
        \/ scan.framewise_displacement[t + 1] > slf.fd_thresh
        \/ scan.std_dvars[t + 1] > slf.std_dvars_thresh}

\* C7: in mode basic the flagged timepoints are exactly those whose
\* displacement or whose standardized DVARS is strictly over its threshold,
\* each once and ascending; when no timepoint is over a threshold the family
\* gives no column, in mode basic and in mode full.
C7_BaseOutliers ==
    ScrubLoaded =>
        LET over == OverThreshold(self, img_files[1])
        IN  /\ self.scrub = "basic" =>
                /\ Len(outcome.value) = Cardinality(over)
                /\ FlaggedBy(outcome.value) = over
                /\ \A k \in 1..Len(outcome.value) :
                      Cardinality(RowsOf(outcome.value[k].vec)) = 1
                /\ \A k, l \in 1..Len(outcome.value) :
                      k < l => \A t \in RowsOf(outcome.value[k].vec) :
                                  \A u \in RowsOf(outcome.value[l].vec) : t < u
            /\ over = {} => outcome.value = <<>>

\* one timepoint is flagged for its displacement, another for its DVARS,
\* and a timepoint at the displacement threshold is not flagged
C7_Witness ==
    /\ ScrubLoaded
    /\ self.scrub = "basic"
    /\ Len(outcome.value) = 2
    /\ img_files[1].framewise_displacement[3] = 3
    /\ img_files[1].std_dvars[3] = 3
    /\ img_files[1].std_dvars[8] = 4
    /\ img_files[1].framewise_displacement[8] = 2

\* no run of unflagged timepoints, between two flagged ones, before the
\* first or after the last, is shorter than the minimum
NoShortRun(F, n) ==
    \A a, b \in 0..(n - 1) :
        (/\ a <= b
         /\ \A t \in a..b : t \notin F
         /\ (a = 0 \/ a - 1 \in F)
         /\ (b = n - 1 \/ b + 1 \in F))
            => b - a + 1 >= MinRunLength

\* C8: in mode full with some timepoint over a threshold, the flagged set
\* holds every such timepoint, holds only timepoints of the scan, and is a
\* fixed point of the absorption rule.
C8_AbsorbedFixedPoint ==
    (ScrubLoaded /\ self.scrub = "full" /\ OverThreshold(self, img_files[1]) # {})
        => /\ OverThreshold(self, img_files[1]) \subseteq FlaggedBy(outcome.value)
           /\ \A k \in 1..Len(outcome.value) :
                Len(outcome.value[k].vec) = img_files[1].n_scans
           /\ NoShortRun(FlaggedBy(outcome.value), img_files[1].n_scans)

\* outliers at 5 and 8 of 12: the segments 6-7 and 9-11 are absorbed, the
\* segment 0-4 is kept
C8_Witness ==
    /\ ScrubLoaded
    /\ self.scrub = "full"
    /\ OverThreshold(self, img_files[1]) = {5, 8}
    /\ FlaggedBy(outcome.value) = 5..11

\* the scrub family has just been dispatched, alone
ScrubRendered == pc = "gate" /\ self.strategy = <<"scrub">>

\* C9: the scrub family gives one indicator column per flagged timepoint:
\* as many columns as flagged timepoints; the k-th (from 0, ascending
\* timepoints) is named motion_outlier_k, is 1 at the row of the k-th
\* flagged timepoint and 0 in every other row; no row is 1 in two columns.
C9_OneHotPerFlagged ==
    ScrubRendered =>
        LET flagged == combined_outliers(self, confounds_raw)
            block == loaded_confounds
        IN  /\ Len(block) = Cardinality(Range(flagged))
            /\ \A k, l \in 1..Len(flagged) : k < l => flagged[k] < flagged[l]
            /\ \A k \in 1..Len(block) :
                  /\ block[k].label = "motion_outlier_" \o ToString(k - 1)
                  /\ Len(block[k].vec) = confounds_raw.n_scans
                  /\ \A r \in 1..Len(block[k].vec) :
                        block[k].vec[r] = IF r - 1 = flagged[k] THEN 1 ELSE 0
            /\ \A r \in 1..confounds_raw.n_scans :
                  Cardinality({k \in 1..Len(block) : block[k].vec[r] = 1}) <= 1

\* the second column is motion_outlier_1 though it flags timepoint 7
C9_Witness ==
    /\ ScrubRendered
    /\ self.scrub = "basic"
    /\ Len(loaded_confounds) = 2
    /\ loaded_confounds[2].label = "motion_outlier_1"
    /\ loaded_confounds[2].vec[8] = 1
    /\ loaded_confounds[1].vec[3] = 1

-----------------------------------------------------------------------------
(* Compcor: the strategy is compcor alone, one load() call on a scan whose *)
(* sidecar lists up to MaxComp components for each of the four masks       *)

\* cumulative variance at rank k: one profile reaches the target exactly at
\* rank 2, the other is over it from rank 1
CumVar(profile, k) == IF profile = "slow" THEN 10 + 20 * k ELSE 50 + 10 * k

MaskEntries(prefix, first, count, mask, profile) ==
    [k \in 1..count |->
        [name |-> prefix \o "_comp_cor_0" \o ToString(first + k - 1),
         mask |-> mask, cumvar |-> CumVar(profile, k)]]

MakeMeta(n_combined, n_csf, n_wm, n_temporal, profile) ==
    MaskEntries("a", 0, n_combined, "combined", profile)
        \o MaskEntries("a", n_combined, n_csf, "CSF", profile)
        \o MaskEntries("a", n_combined + n_csf, n_wm, "WM", profile)
        \o MaskEntries("t", 0, n_temporal, "temporal", profile)

CompcorScans ==
    {Scan(1, {}, <<1, 3, 1, 1, 1, 1, 1, 1>>, <<2, 2, 2, 2, 2, 4, 2, 2>>, TRUE,
          MakeMeta(c[1], c[2], c[3], c[4], profile), FALSE, 2) :
        c \in [1..4 -> 0..MaxComp], profile \in {"slow", "fast"}}

CompcorArgs ==
    {[DefaultArgs EXCEPT !.strategy = [islist |-> TRUE, items |-> <<"compcor">>],
                         !.compcor = mode,
                         !.n_compcor = n,
                         !.acompcor_combined = combined] :
        mode \in {"anat", "temp", "full"},
        n \in {[auto |-> TRUE, n |-> 0], [auto |-> FALSE, n |-> 1],
               [auto |-> FALSE, n |-> 2]},
        combined \in {"True", "False"}}

InitCompcor == InitWith(CompcorArgs, {<<Single(s)>> : s \in CompcorScans})

SpecCompcor == InitCompcor /\ [][Next]_vars

\* a compcor-only load has returned
CompcorLoaded ==
    /\ Finished
    /\ outcome.status = "returned"
    /\ flag_single
    /\ self.strategy = <<"compcor">>

\* the mask the sidecar gives a column
MaskOf(meta, name) == (CHOOSE e \in Range(meta) : e.name = name).mask

\* the columns the family gives for the same scan, count and combined flag
\* under another mode
UnderMode(mode) == Labels(_load_compcor([self EXCEPT !.compcor = mode], confounds_raw).val)

\* C10: the compcor family with mode anat returns no column of the temporal
\* mask, with mode temp no column of an anatomical mask, and with mode full
\* the union of the two selections, as many columns as anat alone and temp
\* alone give together for the same count and combined flag.
C10_ModeSelectsMasks ==
    CompcorLoaded =>
        LET names == self.columns_
            meta == img_files[1].meta
        IN  /\ self.compcor = "anat" =>
                \A k \in 1..Len(names) : MaskOf(meta, names[k]) # "temporal"
            /\ self.compcor = "temp" =>
                \A k \in 1..Len(names) :
                    MaskOf(meta, names[k]) \notin {"combined", "CSF", "WM"}
            /\ self.compcor = "full" =>
                /\ Range(names) = Range(UnderMode("anat")) \cup Range(UnderMode("temp"))
                /\ Len(names) = Len(UnderMode("anat")) + Len(UnderMode("temp"))

\* mode full, count auto, masks apart: one CSF, two white-matter and two
\* temporal components are returned
C10_Witness ==
    /\ CompcorLoaded
    /\ self.compcor = "full"
    /\ self.n_compcor.auto
    /\ self.acompcor_combined = "False"
    /\ Len(UnderMode("anat")) = 3
    /\ Len(UnderMode("temp")) = 2
    /\ Len(self.columns_) = 5

\* the masks a mode and a combined flag make eligible, as the rule states them
EligibleMasks(mode, combined) ==
    (IF mode \in {"anat", "full"}
     THEN IF combined = "True" THEN {"combined"} ELSE {"CSF", "WM"}
     ELSE {})
    \cup (IF mode \in {"temp", "full"} THEN {"temporal"} ELSE {})

\* the candidates of a mask, highest explained variance first
Ranked(meta, mask) == SelectSeq(meta, LAMBDA e : e.mask = mask)

\* the ranks of a mask's candidates that are among the returned columns
PickedRanks(meta, mask, names) ==
    {k \in 1..Len(Ranked(meta, mask)) : Ranked(meta, mask)[k].name \in Range(names)}

-----------------------------------------------------------------------------
(* Family options: strategies around compcor, ICA-AROMA and scrub, with    *)
(* supported and unsupported modes, on scans with and without a sidecar    *)

\* a scan with every column and no sidecar
NoSidecarScan ==
    Scan(6, {}, <<1, 1, 3, 1, 1, 1, 1, 1>>, <<2, 2, 2, 2, 2, 2, 2, 2>>,
         FALSE, DefaultMeta, FALSE, 2)

OptionStrategies ==
    {<<"compcor">>, <<"motion", "compcor">>, <<"compcor", "motion">>,
     <<"ica_aroma">>, <<"scrub">>}

OptionArgs ==
    {a \in {[DefaultArgs EXCEPT !.strategy = [islist |-> TRUE, items |-> st],
                                !.compcor = cc, !.ica_aroma = ia, !.scrub = sc] :
                st \in OptionStrategies,
                cc \in {"anat", "temp", "full", "blah"},
                ia \in {"None", "basic", "full", "blah"},
                sc \in {"basic", "full", "blah"}} :
        /\ a.compcor \in OptionsOf("compcor", {"anat", "temp", "full", "blah"},
                                   "anat", a.strategy)
        /\ a.ica_aroma \in OptionsOf("ica_aroma", {"None", "basic", "full", "blah"},
                                     "None", a.strategy)
        /\ a.scrub \in OptionsOf("scrub", {"basic", "full", "blah"}, "full",
                                 a.strategy)}

OptionScans == Catalogue \cup {NoSidecarScan}

InitOptions ==
    InitWith(OptionArgs,
             {<<Single(s)>> : s \in OptionScans}
                \cup {<<List(<<s>>)>> : s \in OptionScans})

SpecOptions == InitOptions /\ [][Next]_vars

\* the place of a family in the strategy
PlaceOf(tag, strategy) == Min({k \in 1..Len(strategy) : strategy[k] = tag})

\* the file is of the kind the strategy needs and no family before place k
\* ends the call with an error of its own
ReachesPlace(slf, scan, k) ==
    /\ (InSeq("ica_aroma", slf.strategy) /\ slf.ica_aroma = "full") = scan.aroma_file
    /\ \A j \in 1..(k - 1) :
          LET r == Dispatch(ForScan(slf, scan), slf.strategy[j], scan)
          IN  r.ok \/ r.exc.type = "MissingConfound"

\* C12: for every compcor mode, when the strategy contains compcor and the
\* scan has no sidecar metadata, load fails with the missing-metadata error
\* (ValueError), raised at once: nothing about compcor is added to the
\* missing lists, the error is not the consolidated one of the gate, and no
\* result is returned or kept.
C12_MissingMetadataFatal ==
    (/\ Finished
     /\ Len(img_files) = 1
     /\ InSeq("compcor", self.strategy)
     /\ self.compcor \in {"anat", "temp", "full"}
     /\ ~img_files[1].has_json
     /\ ReachesPlace(self, img_files[1], PlaceOf("compcor", self.strategy)))
        => /\ outcome.status = "raised"
           /\ outcome.exc.type = "ValueError"
           /\ outcome.exc.origin \in {"_get_json", "_find_compcor"}
           /\ "compcor" \notin Range(self.missing_keys_)
           /\ \A c \in Range(self.missing_confounds_) :
                 ~InSeq(c, MetaNames(img_files[1].meta))
           /\ ~self.loaded

\* temporal compcor after motion on the incomplete scan: motion's columns
\* are in the missing list when compcor ends the call
C12_Witness ==
    /\ Finished
    /\ self.strategy = <<"motion", "compcor">>
    /\ self.compcor = "temp"
    /\ ~img_files[1].has_json
    /\ self.missing_confounds_ # <<>>
    /\ outcome.status = "raised"
    /\ outcome.exc.origin = "_find_compcor"

\* the family has a mode outside its supported set
InvalidMode(slf, tag) ==
    \/ tag = "compcor" /\ slf.compcor \notin {"anat", "temp", "full"}
    \/ tag = "ica_aroma" /\ slf.ica_aroma \notin {"basic", "full", "None"}
    \/ tag = "scrub" /\ slf.scrub \notin {"basic", "full"}

\* C13: loading a strategy that holds a family whose mode is outside the
\* supported set (compcor, ICA-AROMA, scrub) fails at once with the
\* invalid-option error and returns no result.
C13_InvalidModeRaises ==
    \A tag \in {"compcor", "ica_aroma", "scrub"} :
        (/\ Finished
         /\ Len(img_files) = 1
         /\ InSeq(tag, self.strategy)
         /\ InvalidMode(self, tag)
         /\ ReachesPlace(self, img_files[1], PlaceOf(tag, self.strategy)))
            => /\ outcome.status = "raised"
               /\ outcome.exc.origin # "_check_error"
               /\ ~self.loaded

-----------------------------------------------------------------------------
(* Properties of the motion specification: the variance target *)

\* the table holds every column the motion model needs
HasMotionColumns(scan, model) ==
    \A c \in RuleExpansion(model) : InSeq(c, scan.columns)

\* C14: for every motion variance target outside [0, 1], negative or above
\* 1, loading a strategy that contains motion on a table with all the motion
\* columns fails at once with the invalid-configuration error (ValueError):
\* nothing is accumulated and no result is returned.
C14_TargetOutOfRangeRaises ==
    (/\ Finished
     /\ Len(img_files) = 1
     /\ InSeq("motion", self.strategy)
     /\ (self.n_motion < 0 \/ self.n_motion > 100)
     /\ HasMotionColumns(img_files[1], self.motion)
     /\ ReachesPlace(self, img_files[1], PlaceOf("motion", self.strategy)))
        => /\ outcome.status = "raised"
           /\ outcome.exc.type = "ValueError"
           /\ outcome.exc.origin # "_check_error"
           /\ self.missing_confounds_ = <<>>
           /\ ~self.loaded

\* a label of the reduced block
IsPcaLabel(label) ==
    Len(label) >= Len("motion_pca_")
        /\ SubSeq(label, 1, Len("motion_pca_")) = "motion_pca_"

\* a motion-only load has returned, whatever the target
MotionReturned ==
    /\ Finished
    /\ outcome.status = "returned"
    /\ flag_single
    /\ self.strategy = <<"motion">>

\* C15: with variance target 0 the motion block is not reduced: for every
\* model the family returns the columns of the suffix expansion themselves,
\* under their names, as many as the expansion has, and no motion_pca_
\* column; a reduced column appears only with a target greater than 0.
C15_NoReductionAtZero ==
    MotionReturned =>
        /\ self.n_motion = 0 =>
              /\ Len(outcome.value) = Cardinality(RuleExpansion(self.motion))
              /\ \A k \in 1..Len(outcome.value) :
                    /\ outcome.value[k].name \in RuleExpansion(self.motion)
                    /\ outcome.value[k].src = "raw"
                    /\ ~IsPcaLabel(self.columns_[k])
              /\ \A c \in RuleExpansion(self.motion) : InSeq(c, self.columns_)
        /\ (\E k \in 1..Len(self.columns_) : IsPcaLabel(self.columns_[k]))
              => self.n_motion > 0

\* the derivatives model with target 0 gave its twelve table columns
C15_Witness ==
    /\ MotionReturned
    /\ self.n_motion = 0
    /\ self.motion = "derivatives"
    /\ Len(outcome.value) = 12
    /\ outcome.value[12].src = "raw"
    /\ outcome.value[12].name = "rot_z_derivative1"

-----------------------------------------------------------------------------
(* Reuse: up to MaxCalls load() calls, one after the other, on one         *)
(* instance; each input is one scan or a list of two different scans       *)

ReuseScans == {s \in Catalogue : s.id \in {1, 2, 3}}

ReuseInputs ==
    {Single(s) : s \in ReuseScans}
        \cup {List(<<p[1], p[2]>>) :
                p \in {q \in ReuseScans \X ReuseScans : q[1] # q[2]}}

ReuseArgs ==
    {[DefaultArgs EXCEPT !.strategy = [islist |-> TRUE, items |-> st]] :
        st \in {<<"motion", "high_pass">>, <<"global", "scrub">>, <<"compcor">>}}

InitReuse ==
    InitWith(ReuseArgs, {c \in SeqsUpTo(ReuseInputs, MaxCalls) : c # <<>>})

SpecReuse == InitReuse /\ [][Next]_vars

\* what the call's input and the options alone decide: the error of the
\* first scan that fails alone, or the results of the scans, each as alone
OutcomeOfInput(slf, files, single) ==
    LET alone == [i \in 1..Len(files) |-> LoadAlone(slf, files[i])]
        failing == {i \in 1..Len(files) : alone[i].status = "raised"}
    IN  IF failing # {} THEN alone[Min(failing)]
        ELSE Returned(IF single THEN alone[1].value
                      ELSE [i \in 1..Len(files) |-> alone[i].value])

\* C16: the outcome of a load (the result, or the error and what its message
\* names) is decided by the scans' tables, their metadata and the options
\* alone, whatever calls came before on the instance and whatever scans came
\* before in the list; the two missing lists are empty whenever the dispatch
\* of a scan's families begins.
C16_OutcomeOfInputsOnly ==
    /\ Finished => outcome = OutcomeOfInput(self, img_files, flag_single)
    /\ (pc \in {"confound", "gate"} /\ step = 1) =>
          /\ self.missing_confounds_ = <<>>
          /\ self.missing_keys_ = <<>>

\* on an instance that has loaded before, a call on a list whose second
\* scan lacks columns ends with the consolidated error of that scan
C16_Witness ==
    /\ Finished
    /\ self.loaded
    /\ ~flag_single
    /\ img_files[1].id = 1 /\ img_files[2].id = 2
    /\ outcome.status = "raised"
    /\ outcome.exc.origin = "_check_error"
    /\ outcome.exc.params = <<"trans_y", "trans_x_derivative1", "rot_z_power2">>

\* C17: after every load call, returned or raised, what the instance keeps
\* in confounds_ and columns_ is the result of that call's input: after a
\* call that returned it is the returned result, and after a call that
\* raised the instance keeps no result of an earlier call.
C17_RetainedIsOfThisCall ==
    Finished =>
        IF outcome.status = "returned"
        THEN self.loaded /\ self.confounds_ = outcome.value
        ELSE ~self.loaded

-----------------------------------------------------------------------------
(* Absent columns, family by family (general specification) *)

\* C18: whenever the family being dispatched reads a column the table
\* lacks (the scrub family's framewise_displacement and std_dvars included),
\* the absence is recorded in the missing lists and nothing is raised at
\* that point: the caller sees it only in the consolidated error of the
\* gate.
C18_AbsenceAccumulated ==
    [][(/\ pc = "confound"
        /\ Absent(self, self.strategy[step], confounds_raw) # <<>>)
       => (/\ outcome' = outcome
           /\ pc' \in {"confound", "gate"}
           /\ \A name \in Range(Absent(self, self.strategy[step], confounds_raw)) :
                 name \in Range(self'.missing_confounds_)
                            \cup Range(self'.missing_keys_))]_vars

====
